---- MODULE Spec2Model ----
(***************************************************************************)
(* Shortcut-Composer: the slider poll loop (Slider) and the pie menu       *)
(* (PieMenu, PieWidget, Label, pie settings) as state machines.            *)
(*                                                                         *)
(* SliderSpec is the slider: one thread runs Slider.start() step by step   *)
(* while another may call Slider.stop() between any two steps.             *)
(* Spec is the pie menu: key presses and releases, pointer ticks, drags    *)
(* of label widgets, and changes of the stored configuration, each handler *)
(* running to completion on the GUI thread.                                *)
(* ProgressSpec is one AnimationProgress under any calls of up(), down()   *)
(* and reset(); TickSpec is a label's progress driven by the timer.        *)
(* SelectSpec is the pie picked from by pointer samples; RotationSpec is   *)
(* the rotation menu: key press, timer ticks over samples, key release.    *)
(* PresetValuesSpec is PresetPieConfig.values read between writes of the   *)
(* saved order and changes of the tag.                                     *)
(***************************************************************************)
EXTENDS Integers, Sequences, FiniteSets, TLC

\* ------------------------------------------------------------------
\* Bounds of the model
\* ------------------------------------------------------------------

\* Ticks counted after a stop request; the counter saturates here.
MaxTicksAfterStop == 3

\* Labels the pie's list may hold: a drag inserts only below this size.
MaxLabels == 2

\* Longest saved order of a preset pie that is tried.
MaxSaved == 3

\* Resolution of the animation progress: the float value v is held as the
\* integer v * AnimUnit, and a result is rounded to the nearest such number.
AnimUnit == 1000

\* ------------------------------------------------------------------
\* Slider: values and parameters
\* ------------------------------------------------------------------

\* Default of the `sensitivity` argument of Slider.__init__.
DefaultSensitivity == 50

\* Lengths of the lists given as values_to_cycle.
CycleLens == {3, 10}

\* Sensitivities a slider is constructed with.
Sensitivities == {2, DefaultSensitivity}

\* Pointer coordinates mouse_getter() may return.
MouseSamples == {0, 1, 3, 50, 125}

\* The i-th (0-based) value of a cycle: values differ from their indices.
CycleValue(i) == 100 + i

\* A controller value that is in no cycle.
NotInCycle == CycleValue(0) - 1

\* The list values_to_cycle of length n.
CycleOfLen(n) == [i \in 1..n |-> CycleValue(i - 1)]

\* Indices (0-based) the designated default value of a cycle may have.
DefaultIndices == {0, 1}

NoInterpreter == [min |-> 0, max |-> 0, mouse_origin |-> 0,
                  start_value |-> 0, sensitivity |-> 0, set |-> FALSE]

\* ------------------------------------------------------------------
\* Pie: values, labels and geometry
\* ------------------------------------------------------------------

\* The values a controller of the pie knows.
Values == {"A", "B"}

\* Values whose label the controller may fail to return.
Flaky == {"B"}

\* No label / no value.
None == "none"

\* Value lists an out-of-band edit stores in the configuration (ORDER).
ConfigLists == {<<>>, <<"A">>, <<"A", "B">>}

\* The configured list of the pie whose labels are reordered by drags.
ReorderOrder == <<"A", "B", "C">>

\* Label objects. The settings' pool holds one label per value it shows, named
\* by the value; PieMenu._reset_labels creates the labels named p1, p2, ...
PieIdNames == <<"p1", "p2", "p3", "p4", "p5", "p6", "p7", "p8">>
PieId(i) == PieIdNames[i]
PieIds ==
    {PieId(i) : i \in 1..(IF MaxLabels > Len(ReorderOrder) THEN MaxLabels
                          ELSE Len(ReorderOrder))}
PoolIds == Values \ Flaky
Ids == PieIds \cup PoolIds

\* QPoint(0, 0), the default of Label.center.
Origin == [circle |-> FALSE, at |-> 0]

\* A label object that does not exist.
NoLabelObject == [value |-> None, center |-> Origin, angle |-> 0]

\* Distance bands of a pointer position: closer than the deadzone radius,
\* between the deadzone radius and the pie radius, beyond the pie radius.
Zones == {"deadzone", "ring", "outside"}

\* Angles (degrees, clockwise from the top) of the pointer positions sampled.
PointerAngles == {0, 130, 250}

\* Pointer positions sampled: the angle matters only between the two radii.
PointerPositions ==
    {[zone |-> z, angle |-> 0] : z \in Zones \ {"ring"}}
    \cup {[zone |-> "ring", angle |-> a] : a \in PointerAngles}

\* Angles of the samples the pie's manager reads: the labels' own angles,
\* angles near one label and angles halfway between two labels.
SampleAngles == {0, 45, 60, 90, 130, 180, 250, 270, 300, 359}

\* Samples of the pointer: a distance band and an angle.
SelectPositions == [zone : Zones, angle : SampleAngles]

\* No sample was read yet in this session.
NoSample == [zone |-> None, angle |-> 0]

VARIABLES
    to_cycle,        \* Slider.__to_cycle: [values, default_value]
    sensitivity,     \* Slider.__sensitivity
    working,         \* Slider.__working
    interpreter,     \* Slider.__interpreter (NoInterpreter before start())
    spc,             \* position of the thread running start()
    sctrl,           \* the value held by the slider's controller
    stopRequested,   \* stop() has been called since start() was entered
    ticksAfterStop,  \* _handle() calls completed after the first stop()
    passedAfterStop, \* the loop condition was evaluated true after a stop()
    sop,             \* the slider step taken last
    scalls,          \* controller.set_value arguments of the last step
    lastSample,      \* the pointer sample of the last tick
    lastIndex,       \* the index mouse_to_value resolved in the last tick
    prevCtrl,        \* controller value before the last tick
    startMissing,    \* the controller value was not in the cycle at start()
    order,           \* the configured value list (config ORDER / values())
    last_values,     \* PieMenu._last_values
    labels,          \* PieMenu._labels = PieWidget.labels: label objects
    heap,            \* the fields of every label object
    children,        \* PieWidget.children_widgets: the label each displays
    holder,          \* PieWidget.widget_holder: <<angle, label>> as added
    edit_mode,       \* the pie's edit mode
    visible,         \* PieWidget.isVisible()
    active,          \* value of PieWidget.active, or None
    key_down,        \* the action's key is held
    INVALID_VALUES,  \* PieMenu.INVALID_VALUES
    valid,           \* values controller.get_label returns a label for
    drag,            \* the drag in progress: its source widget's label, whether
                     \* the source is a child of the pie, the values of the
                     \* labels when it began, the distance band of its last
                     \* move, and whether that move brought a label the
                     \* drag had taken out back into the ring
    draggable,       \* the pool widgets that are enabled and draggable
    settings_built,  \* the pie settings (and their pool) were constructed
    calls,           \* controller and manager calls of the last handler
    requeried,       \* the last handler asked get_label for an excluded value
    excluded_in,     \* the configured list in which a value was found invalid
    progress_value,  \* AnimationProgress._value, in units of 1/AnimUnit
    progress_speed,  \* AnimationProgress._speed, in units of 1/AnimUnit
    progress_steep,  \* AnimationProgress._steep, in units of 1/AnimUnit
    progress_op,     \* the method of the progress called last
    selected,        \* the label of the progress is the active one
    pointer,         \* the pointer sample the pie's manager read last in
                     \* this session (followed in SelectSpec only)
    rotation_config, \* RotationConfig: divisions, inverse_zones,
                     \* is_counterclockwise, offset, deadzone_strategy
    rotation_on,     \* the rotation manager and actuator are started
    selected_zone,   \* the zone of the rotation widget the pointer is in
    computed,        \* the value computed last in this session, if any
    starting_value,  \* the controller's value when the session started
    rotation_value,  \* the value held by the rotation menu's controller
    rotation_calls,  \* calls of the rotation menu's last handler, in order
    allow_remove,    \* PieConfig.allow_remove: set by the config's
                     \* __init__, written by no handler
    saved_order,     \* PresetPieConfig.order, as order.read() returns it
    tag_values,      \* the presets of the tag named by tag_name, in its order
    values_read      \* what the property `values` returned when read last
                     \* since the order or the tag changed, if it was read

sliderVars == <<to_cycle, sensitivity, working, interpreter, spc, sctrl,
                stopRequested, ticksAfterStop, passedAfterStop, sop, scalls,
                lastSample, lastIndex, prevCtrl, startMissing>>

pieVars == <<order, last_values, labels, heap, children, holder,
             edit_mode, visible, active, key_down, INVALID_VALUES, valid,
             drag, draggable, settings_built, calls, requeried,
             excluded_in>>

animVars == <<progress_value, progress_speed, progress_steep, progress_op,
              selected>>

\* What the handlers of the pie, of the slider and of the progress leave
\* alone, each beside its own variables.
rotationVars == <<rotation_config, rotation_on, selected_zone, computed,
                  starting_value, rotation_value, rotation_calls>>

presetVars == <<saved_order, tag_values, values_read>>

besidePie == <<sliderVars, animVars, pointer, rotationVars, allow_remove,
               presetVars>>

besideSlider == <<pieVars, animVars, pointer, rotationVars, allow_remove,
                  presetVars>>

besideAnim == <<sliderVars, pieVars, pointer, rotationVars, allow_remove,
                presetVars>>

besideRotation == <<sliderVars, pieVars, animVars, pointer, allow_remove,
                    presetVars>>

besidePreset == <<sliderVars, pieVars, animVars, pointer, rotationVars,
                  allow_remove>>

vars == <<sliderVars, pieVars, animVars, pointer, rotationVars, allow_remove,
          presetVars>>

\* ------------------------------------------------------------------
\* Slider values (create_slider_values) and MouseInterpreter
\* ------------------------------------------------------------------

\* to_cycle.min / to_cycle.max: the integer index range of the cycle.
CycleMin(c) == 0
CycleMax(c) == Len(c.values) - 1

\* to_cycle.index(value): the position of value's first occurrence; a value
\* that is not in the cycle raises ValueError.
CycleIndex(c, v) ==
    IF \E i \in 1..Len(c.values) : c.values[i] = v
    THEN [raised |-> FALSE,
          index |-> (CHOOSE i \in 1..Len(c.values) :
                        c.values[i] = v /\ \A j \in 1..(i - 1) : c.values[j] # v) - 1]
    ELSE [raised |-> TRUE, index |-> 0]

\* to_cycle.at(index)
CycleAt(c, i) == c.values[i + 1]

\* Python's round() of the quotient n / d (d > 0): nearest integer, a tie
\* going to the even neighbour.
RoundDiv(n, d) ==
    LET q == n \div d
        r == n - q * d
    IN  IF 2 * r < d THEN q
        ELSE IF 2 * r > d THEN q + 1
        ELSE IF q % 2 = 0 THEN q ELSE q + 1

Clip(x, lo, hi) == IF x < lo THEN lo ELSE IF x > hi THEN hi ELSE x

\* A rounding that sends ties up instead of to the even neighbour.
MouseToValue_HalfUp(it, mouse) ==
    LET n == mouse - it.mouse_origin
        q == n \div it.sensitivity
        r == n - q * it.sensitivity
        rounded == IF 2 * r < it.sensitivity THEN q ELSE q + 1
    IN  Clip(it.start_value + rounded, it.min, it.max)

\* MouseInterpreter.mouse_to_value(mouse)
MouseToValue(it, mouse) ==
    Clip(it.start_value + RoundDiv(mouse - it.mouse_origin, it.sensitivity),
         it.min, it.max)

\* ------------------------------------------------------------------
\* Slider
\* ------------------------------------------------------------------

\* A start value that ignores the cycle's default.
GetCurrentValue_NoDefault ==
    LET found == CycleIndex(to_cycle, sctrl)
    IN  IF found.raised THEN CycleMin(to_cycle) ELSE found.index

\* Slider.__get_current_value()
GetCurrentValue ==
    LET found == CycleIndex(to_cycle, sctrl)
    IN  IF found.raised THEN to_cycle.default_value ELSE found.index

\* Slider.__init__: the state after construction.
SliderInit ==
    /\ \E n \in CycleLens, d \in DefaultIndices :
           to_cycle = [values |-> CycleOfLen(n), default_value |-> d]
    /\ sensitivity \in Sensitivities
    /\ working = FALSE
    /\ interpreter = NoInterpreter
    /\ spc = "idle"
    /\ sctrl \in {CycleValue(0), CycleValue(2), CycleValue(5), NotInCycle}
    /\ sctrl \in {to_cycle.values[i] : i \in 1..Len(to_cycle.values)}
                     \cup {NotInCycle}
    /\ stopRequested = FALSE
    /\ ticksAfterStop = 0
    /\ passedAfterStop = FALSE
    /\ sop = "init"
    /\ scalls = <<>>
    /\ lastSample = 0
    /\ lastIndex = 0
    /\ prevCtrl = sctrl
    /\ startMissing = FALSE

\* Slider.start(), lines 27-33: the interpreter is built from the cycle,
\* one pointer sample and the controller's current value.
SliderStart ==
    /\ spc = "idle"
    /\ \E origin \in MouseSamples :
           interpreter' = [min |-> CycleMin(to_cycle),
                           max |-> CycleMax(to_cycle),
                           mouse_origin |-> origin,
                           start_value |-> GetCurrentValue,
                           sensitivity |-> sensitivity,
                           set |-> TRUE]
    /\ startMissing' = CycleIndex(to_cycle, sctrl).raised
    /\ spc' = "constructed"
    /\ sop' = "start"
    /\ scalls' = <<>>
    /\ UNCHANGED <<to_cycle, sensitivity, working, sctrl, stopRequested,
                   ticksAfterStop, passedAfterStop, lastSample, lastIndex,
                   prevCtrl>>

\* Slider.start(), line 34: self.__working = True
SliderSetWorking ==
    /\ spc = "constructed"
    /\ working' = TRUE
    /\ spc' = "check"
    /\ sop' = "set_working"
    /\ scalls' = <<>>
    /\ UNCHANGED <<to_cycle, sensitivity, interpreter, sctrl, stopRequested,
                   ticksAfterStop, passedAfterStop, lastSample, lastIndex,
                   prevCtrl, startMissing>>

\* Slider.start(), line 35: while self.__working
SliderLoopCheck ==
    /\ spc = "check"
    /\ spc' = IF working THEN "handle" ELSE "returned"
    /\ passedAfterStop' = (passedAfterStop \/ (working /\ stopRequested))
    /\ sop' = "check"
    /\ scalls' = <<>>
    /\ UNCHANGED <<to_cycle, sensitivity, working, interpreter, sctrl,
                   stopRequested, ticksAfterStop, lastSample, lastIndex,
                   prevCtrl, startMissing>>

\* A tick that calls set_value only when the value changes.
SliderHandle_OnlyOnChange(mouse) ==
    /\ spc = "handle"
    /\ LET clipped_value == MouseToValue(interpreter, mouse)
           to_set == CycleAt(to_cycle, clipped_value)
       IN  /\ lastIndex' = clipped_value
           /\ scalls' = IF to_set = sctrl THEN <<>> ELSE <<to_set>>
           /\ sctrl' = to_set
    /\ prevCtrl' = sctrl
    /\ lastSample' = mouse
    /\ ticksAfterStop' = IF stopRequested /\ ticksAfterStop < MaxTicksAfterStop
                         THEN ticksAfterStop + 1 ELSE ticksAfterStop
    /\ spc' = "sleep"
    /\ sop' = "handle"
    /\ UNCHANGED <<to_cycle, sensitivity, working, interpreter, stopRequested,
                   passedAfterStop, startMissing>>

\* Slider.start(), line 36, and Slider._handle(mouse): one tick.
SliderHandle(mouse) ==
    /\ spc = "handle"
    /\ LET clipped_value == MouseToValue(interpreter, mouse)
           to_set == CycleAt(to_cycle, clipped_value)
       IN  /\ lastIndex' = clipped_value
           /\ scalls' = <<to_set>>
           /\ sctrl' = to_set
    /\ prevCtrl' = sctrl
    /\ lastSample' = mouse
    /\ ticksAfterStop' = IF stopRequested /\ ticksAfterStop < MaxTicksAfterStop
                         THEN ticksAfterStop + 1 ELSE ticksAfterStop
    /\ spc' = "sleep"
    /\ sop' = "handle"
    /\ UNCHANGED <<to_cycle, sensitivity, working, interpreter, stopRequested,
                   passedAfterStop, startMissing>>

\* Slider.start(), line 37: sleep(0.05)
SliderSleep ==
    /\ spc = "sleep"
    /\ spc' = "check"
    /\ sop' = "sleep"
    /\ scalls' = <<>>
    /\ UNCHANGED <<to_cycle, sensitivity, working, interpreter, sctrl,
                   stopRequested, ticksAfterStop, passedAfterStop, lastSample,
                   lastIndex, prevCtrl, startMissing>>

\* Slider.stop(), called by another thread once start() has been entered
\* and has not returned.
SliderStop ==
    /\ spc \in {"constructed", "check", "handle", "sleep"}
    /\ working' = FALSE
    /\ stopRequested' = TRUE
    /\ sop' = "stop"
    /\ scalls' = <<>>
    /\ UNCHANGED <<to_cycle, sensitivity, interpreter, spc, sctrl,
                   ticksAfterStop, passedAfterStop, lastSample, lastIndex,
                   prevCtrl, startMissing>>

SliderTick == \E mouse \in MouseSamples : SliderHandle(mouse)

\* ------------------------------------------------------------------
\* Label (label.py)
\* ------------------------------------------------------------------

\* Label.__eq__: the same value and the same center.
LabelEq(a, b) == a.value = b.value /\ a.center = b.center

\* `label in list` for a list of labels: one of them is the label or equals it.
LabelIn(h, id, list) ==
    \E i \in 1..Len(list) : list[i] = id \/ LabelEq(h[list[i]], h[id])

\* A mutant of the removal that drops the last label of the list.
ListRemove_Pop(h, id, list) == SubSeq(list, 1, Len(list) - 1)

\* list.remove(label): the list without its first element that is the label
\* or equals it.
ListRemove(h, id, list) ==
    LET hit(i) == list[i] = id \/ LabelEq(h[list[i]], h[id])
        first == CHOOSE i \in 1..Len(list) :
                     hit(i) /\ \A j \in 1..(i - 1) : ~hit(j)
    IN  SubSeq(list, 1, first - 1) \o SubSeq(list, first + 1, Len(list))

\* Label.from_value(value, controller): a label with the default center and
\* angle, or no label when controller.get_label(value) is None.
FromValue(okValues, v) ==
    IF v \in okValues
    THEN [value |-> v, center |-> Origin, angle |-> 0]
    ELSE NoLabelObject

\* A mutant of swap_locations that exchanges the angles only.
SwapLocations_AngleOnly(h, a, b) ==
    [h EXCEPT ![a] = [@ EXCEPT !.angle = h[b].angle],
              ![b] = [@ EXCEPT !.angle = h[a].angle]]

\* Label.swap_locations(other): the two labels exchange angle and center.
SwapLocations(h, a, b) ==
    [h EXCEPT ![a] = [@ EXCEPT !.angle = h[b].angle, !.center = h[b].center],
              ![b] = [@ EXCEPT !.angle = h[a].angle, !.center = h[a].center]]

\* The values of a list of labels.
ValuesOf(h, list) == [i \in 1..Len(list) |-> h[list[i]].value]

\* ------------------------------------------------------------------
\* CirclePoints and WidgetHolder (widget_utils)
\* ------------------------------------------------------------------

\* The point of the circle at an angle.
PointFromAngle(a) == [circle |-> TRUE, at |-> a]

\* iterate_over_circle(n): the angle of the i-th of n evenly spaced points.
CircleAngle(i, n) == ((i - 1) * 360) \div n

\* The shorter arc between two angles.
AngleDiff(a, b) ==
    LET d == (a - b) % 360
    IN  IF d > 180 THEN 360 - d ELSE d

\* A mutant of on_angle in which the widget added last wins a tie.
OnAngle_LastOnTie(hold, angle) ==
    IF hold = <<>> THEN None
    ELSE LET k == CHOOSE k \in 1..Len(hold) :
                      /\ \A j \in 1..Len(hold) :
                             AngleDiff(hold[k][1], angle) <= AngleDiff(hold[j][1], angle)
                      /\ \A j \in (k + 1)..Len(hold) :
                             AngleDiff(hold[j][1], angle) > AngleDiff(hold[k][1], angle)
         IN  hold[k][2]

\* WidgetHolder.on_angle(angle): the label of the widget whose angle is the
\* closest, the one added first on a tie; None for an empty holder.
OnAngle(hold, angle) ==
    IF hold = <<>> THEN None
    ELSE LET k == CHOOSE k \in 1..Len(hold) :
                      /\ \A j \in 1..Len(hold) :
                             AngleDiff(hold[k][1], angle) <= AngleDiff(hold[j][1], angle)
                      /\ \A j \in 1..(k - 1) :
                             AngleDiff(hold[j][1], angle) > AngleDiff(hold[k][1], angle)
         IN  hold[k][2]

\* WidgetHolder.swap(w1, w2): each widget is filed under the other's angle.
HolderSwap(hold, a, b) ==
    [k \in 1..Len(hold) |->
        IF hold[k][2] = a THEN <<hold[k][1], b>>
        ELSE IF hold[k][2] = b THEN <<hold[k][1], a>>
        ELSE hold[k]]

\* ------------------------------------------------------------------
\* PieWidget layout (pie_widget.py)
\* ------------------------------------------------------------------

\* PieWidget._reset_holder over the children made by _reset_children: every
\* label gets the angle and the point of its place in the list.
ResetHolder(h, list) ==
    [heap |-> [id \in Ids |->
                  IF \E i \in 1..Len(list) : list[i] = id
                  THEN LET i == CHOOSE i \in 1..Len(list) : list[i] = id
                           a == CircleAngle(i, Len(list))
                       IN  [h[id] EXCEPT !.angle = a, !.center = PointFromAngle(a)]
                  ELSE h[id]],
     holder |-> [i \in 1..Len(list) |-> <<CircleAngle(i, Len(list)), list[i]>>]]

\* The heap without the pie's label objects that nothing refers to any more.
Collect(h, live) ==
    [id \in Ids |->
        IF id \in PieIds /\ id \notin live THEN NoLabelObject ELSE h[id]]

\* The labels a list refers to.
Referred(list) == {list[i] : i \in 1..Len(list)}

\* A mutant of _restart that rebuilds the children but leaves the holder.
Restart_KeepsHolder(h, list) ==
    [heap |-> h, holder |-> holder, children |-> list]

\* A mutant of _restart that makes no child for the last label.
Restart_SkipsLastChild(h, list) ==
    LET laid == ResetHolder(h, list)
    IN  [heap |-> laid.heap, holder |-> laid.holder,
         children |-> SubSeq(list, 1, Len(list) - 1)]

\* PieWidget._restart(): the children and the holder are rebuilt from the
\* labels.
Restart(h, list) ==
    LET laid == ResetHolder(h, list)
    IN  [heap |-> laid.heap, holder |-> laid.holder, children |-> list]

\* ------------------------------------------------------------------
\* PieMenu._reset_labels (pie_menu.py)
\* ------------------------------------------------------------------

\* What a run of _reset_labels starts from.
ResetInput ==
    [labels |-> labels, heap |-> heap, invalid |-> INVALID_VALUES,
     requeried |-> FALSE, rebuilt |-> FALSE]

RECURSIVE ResetLoop(_, _, _)
\* The loop of _reset_labels (lines 221-227) from the i-th value on: a label
\* is made of every value the controller has a label for, the others are
\* added to INVALID_VALUES.
ResetLoop(values, i, acc) ==
    IF i > Len(values) THEN acc
    ELSE LET v == values[i]
             label == FromValue(valid, v)
             asked == [acc EXCEPT !.requeried = @ \/ v \in acc.invalid]
         IN  IF label # NoLabelObject
             THEN LET id == PieId(Len(asked.labels) + 1)
                  IN  ResetLoop(values, i + 1,
                          [asked EXCEPT !.labels = Append(@, id),
                                        !.heap = [@ EXCEPT ![id] = label]])
             ELSE ResetLoop(values, i + 1,
                      [asked EXCEPT !.invalid = @ \cup {v}])

\* PieMenu._reset_labels(values)
ResetLabels(values, acc) ==
    LET filtered_values == SelectSeq(values, LAMBDA v : v \notin acc.invalid)
        current_values == ValuesOf(acc.heap, acc.labels)
    IN  IF filtered_values = current_values THEN acc
        ELSE ResetLoop(values, 1,
                 [acc EXCEPT !.labels = <<>>,
                             !.heap = [id \in Ids |->
                                          IF id \in PieIds THEN NoLabelObject
                                          ELSE @[id]],
                             !.rebuilt = TRUE])

\* ------------------------------------------------------------------
\* Pie settings (settings_gui/enum_pie_settings.py)
\* ------------------------------------------------------------------

\* EnumPieSettings.refresh(): the pool widgets left enabled and draggable,
\* those whose label is not in the used labels.
Refresh(h, used) == {v \in PoolIds : ~LabelIn(h, v, used)}

\* ------------------------------------------------------------------
\* Calls a handler makes on its collaborators
\* ------------------------------------------------------------------

Call(fn, arg) == [fn |-> fn, arg |-> arg]

NoDrag ==
    [on |-> FALSE, label |-> None, child |-> FALSE, before |-> <<>>,
     returned |-> FALSE, zone |-> None]

\* ------------------------------------------------------------------
\* Pie: the state after construction
\* ------------------------------------------------------------------

\* PieMenu.__init__ (and the pool's labels, made by Label.from_value) for a
\* configured list, a set of values the controller has labels for, and the
\* config's allow_remove: TRUE of EnumPieConfig, FALSE of PresetPieConfig.
PieStart(orders, valids, removable) ==
    /\ allow_remove = removable
    /\ order \in orders
    /\ last_values = <<>>
    /\ labels = <<>>
    /\ heap = [id \in Ids |->
                  IF id \in PoolIds
                  THEN [value |-> id, center |-> Origin, angle |-> 0]
                  ELSE NoLabelObject]
    /\ children = <<>>
    /\ holder = <<>>
    /\ edit_mode = FALSE
    /\ visible = FALSE
    /\ active = None
    /\ key_down = FALSE
    /\ INVALID_VALUES = {}
    /\ valid \in valids
    /\ drag = NoDrag
    /\ draggable = {}
    /\ settings_built = FALSE
    /\ calls = <<>>
    /\ requeried = FALSE
    /\ excluded_in = <<>>

\* PieMenu.__init__ for the lists and controllers looked at.
PieInit == PieStart(ConfigLists, {Values, Values \ Flaky}, TRUE)

\* A handler that calls no collaborator and writes nothing.
Quiet ==
    /\ calls' = <<>>
    /\ requeried' = FALSE

\* What a run of _reset_labels(values) leaves in the pie's state.
AfterReset(values, acc) ==
    /\ labels' = acc.labels
    /\ INVALID_VALUES' = acc.invalid
    /\ requeried' = acc.requeried
    /\ excluded_in' = IF acc.invalid # INVALID_VALUES THEN <<values>>
                      ELSE excluded_in

\* ------------------------------------------------------------------
\* Edit mode and hiding
\* ------------------------------------------------------------------

\* Leaving the edit mode: the values of the labels, in the order of their
\* angles, are written to ORDER; the write runs the registered callbacks,
\* PieMenu._reset_labels(values) and then the settings' refresh.
CommitOrder(extraCalls) ==
    LET written == ValuesOf(heap, [k \in 1..Len(holder) |-> holder[k][2]])
        acc == ResetLabels(written, ResetInput)
    IN  /\ order' = written
        /\ AfterReset(written, acc)
        /\ heap' = acc.heap
        /\ calls' = extraCalls \o <<Call("write_order", written)>>
        /\ draggable' = IF settings_built THEN Refresh(acc.heap, acc.labels)
                        ELSE draggable

\* A mutant of hide() that saves the order whether or not the pie is in the
\* edit mode.
Hide_AlwaysCommits(extraCalls) ==
    /\ edit_mode' = FALSE
    /\ visible' = FALSE
    /\ drag' = NoDrag
    /\ CommitOrder(extraCalls)

\* A mutant of hide() that leaves the edit mode without saving the order.
Hide_NeverCommits(extraCalls) ==
    /\ edit_mode' = FALSE
    /\ visible' = FALSE
    /\ drag' = NoDrag
    /\ calls' = extraCalls
    /\ requeried' = FALSE
    /\ heap' = Collect(heap, Referred(labels) \cup Referred(children))
    /\ UNCHANGED <<order, labels, INVALID_VALUES, draggable, excluded_in>>

\* PieWidget.hide(): the edit mode is left and the widget hidden; a hidden
\* widget is no target of a drag.
Hide(extraCalls) ==
    /\ edit_mode' = FALSE
    /\ visible' = FALSE
    /\ drag' = NoDrag
    /\ IF edit_mode
       THEN CommitOrder(extraCalls)
       ELSE /\ calls' = extraCalls
            /\ requeried' = FALSE
            /\ heap' = Collect(heap, Referred(labels) \cup Referred(children))
            /\ UNCHANGED <<order, labels, INVALID_VALUES, draggable,
                           excluded_in>>

\* ------------------------------------------------------------------
\* PieMenu handlers (pie_menu.py)
\* ------------------------------------------------------------------

\* A mutant of on_key_press without the early return for a visible widget.
OnKeyPress_NoVisibleCheck ==
    /\ ~key_down
    /\ key_down' = TRUE
    /\ LET new_values == order
           acc == IF last_values # new_values
                  THEN ResetLabels(new_values, ResetInput)
                  ELSE ResetInput
           laid == Restart(acc.heap, acc.labels)
       IN  /\ AfterReset(new_values, acc)
           /\ last_values' = new_values
           /\ heap' = laid.heap
           /\ children' = laid.children
           /\ holder' = laid.holder
           /\ visible' = TRUE
           /\ active' = None
           /\ calls' = <<Call("isVisible", visible),
                         Call("refresh", None),
                         Call("values", new_values),
                         Call("start", None),
                         Call("on_key_press", None)>>
           /\ UNCHANGED <<order, edit_mode, valid, drag, draggable,
                          settings_built>>

\* PieMenu.on_key_press()
OnKeyPress ==
    /\ ~key_down
    /\ key_down' = TRUE
    /\ IF visible
       THEN /\ calls' = <<Call("isVisible", TRUE)>>
            /\ requeried' = FALSE
            /\ UNCHANGED <<order, last_values, labels, heap, children, holder,
                           edit_mode, visible, active, INVALID_VALUES,
                           valid, drag, draggable, settings_built, excluded_in>>
       ELSE LET new_values == order
                acc == IF last_values # new_values
                       THEN ResetLabels(new_values, ResetInput)
                       ELSE ResetInput
                laid == Restart(acc.heap, acc.labels)
            IN  /\ AfterReset(new_values, acc)
                /\ last_values' = new_values
                /\ heap' = laid.heap
                /\ children' = laid.children
                /\ holder' = laid.holder
                /\ visible' = TRUE
                /\ active' = None
                /\ calls' = <<Call("isVisible", FALSE),
                              Call("refresh", None),
                              Call("values", new_values),
                              Call("start", None),
                              Call("on_key_press", None)>>
                /\ UNCHANGED <<order, edit_mode, valid, drag, draggable,
                               settings_built>>

\* A key release that sets the first label's value when none is active.
OnEveryKeyRelease_AlwaysSets ==
    /\ key_down
    /\ key_down' = FALSE
    /\ UNCHANGED <<last_values, children, holder, active, valid,
                   settings_built>>
    /\ IF edit_mode
       THEN /\ Quiet
            /\ UNCHANGED <<order, labels, heap, edit_mode, visible, drag,
                           INVALID_VALUES, draggable, excluded_in>>
       ELSE LET chosen == IF active # None THEN active
                          ELSE IF labels # <<>> THEN heap[labels[1]].value
                          ELSE None
            IN  Hide(<<Call("stop", None)>>
                     \o IF chosen # None
                        THEN <<Call("set_value", chosen)>> ELSE <<>>)

\* A key release that does not look at the edit mode.
OnEveryKeyRelease_IgnoresEditMode ==
    /\ key_down
    /\ key_down' = FALSE
    /\ UNCHANGED <<last_values, children, holder, active, valid,
                   settings_built>>
    /\ Hide(<<Call("stop", None)>>
            \o IF active # None THEN <<Call("set_value", active)>> ELSE <<>>)

\* PieMenu.on_every_key_release()
OnEveryKeyRelease ==
    /\ key_down
    /\ key_down' = FALSE
    /\ UNCHANGED <<last_values, children, holder, active, valid,
                   settings_built>>
    /\ IF edit_mode
       THEN /\ Quiet
            /\ UNCHANGED <<order, labels, heap, edit_mode, visible, drag,
                           INVALID_VALUES, draggable, excluded_in>>
       ELSE Hide(<<Call("stop", None)>>
                 \o IF active # None
                    THEN <<Call("set_value", active)>> ELSE <<>>)

\* The edit mode is entered: the pie settings are shown, and constructed the
\* first time; their __init__ ends with refresh().
EnterEditMode ==
    /\ edit_mode' = TRUE
    /\ settings_built' = TRUE
    /\ draggable' = IF settings_built THEN draggable
                    ELSE Refresh(heap, labels)

\* settings_button.clicked: the edit mode is entered.
SettingsButtonClicked ==
    /\ visible
    /\ ~edit_mode
    /\ ~drag.on
    /\ EnterEditMode
    /\ Quiet
    /\ UNCHANGED <<order, last_values, labels, heap, children, holder,
                   visible, active, key_down, INVALID_VALUES, valid, drag,
                   excluded_in>>

\* accept_button.clicked: the pie is hidden, which leaves the edit mode.
AcceptButtonClicked ==
    /\ visible
    /\ edit_mode
    /\ ~drag.on
    /\ Hide(<<>>)
    /\ UNCHANGED <<last_values, children, holder, active, key_down, valid,
                   settings_built>>

\* A mutant of the manager's tick that knows no deadzone.
ManagerTick_NoDeadzone(zone, angle) ==
    /\ visible
    /\ active' = IF holder = <<>> THEN None
                 ELSE heap[OnAngle(holder, angle)].value
    /\ Quiet
    /\ UNCHANGED <<order, last_values, labels, heap, children, holder,
                   edit_mode, visible, key_down, INVALID_VALUES, valid, drag,
                   draggable, settings_built, excluded_in>>

\* PieManager's timer tick: the label under the pointer becomes the active
\* one, none inside the deadzone or with no labels.
ManagerTick(zone, angle) ==
    /\ visible
    /\ active' = IF zone = "deadzone" \/ holder = <<>> THEN None
                 ELSE heap[OnAngle(holder, angle)].value
    /\ Quiet
    /\ UNCHANGED <<order, last_values, labels, heap, children, holder,
                   edit_mode, visible, key_down, INVALID_VALUES, valid, drag,
                   draggable, settings_built, excluded_in>>

\* ORDER is changed out of band while the pie is hidden; the registered
\* callbacks run: PieMenu._reset_labels(values), then the settings' refresh.
ConfigChanged(values) ==
    /\ ~visible
    /\ values # order
    /\ order' = values
    /\ LET acc == ResetLabels(values, ResetInput)
       IN  /\ AfterReset(values, acc)
           /\ heap' = acc.heap
           /\ calls' = <<>>
           /\ draggable' = IF settings_built THEN Refresh(acc.heap, acc.labels)
                           ELSE draggable
    /\ UNCHANGED <<last_values, children, holder, edit_mode, visible, active,
                   key_down, valid, drag, settings_built>>

\* The controller starts or stops having a label for a value.
ControllerChanged(v) ==
    /\ valid' = IF v \in valid THEN valid \ {v} ELSE valid \cup {v}
    /\ Quiet
    /\ UNCHANGED <<order, last_values, labels, heap, children, holder,
                   edit_mode, visible, active, key_down, INVALID_VALUES, drag,
                   draggable, settings_built, excluded_in>>

\* ------------------------------------------------------------------
\* PieWidget drag events (pie_widget.py)
\* ------------------------------------------------------------------

\* The widgets a drag can start from: a child of the pie, an enabled widget
\* of the settings' pool (shown in edit mode), or something that is no
\* LabelWidget.
DragSources ==
    {[on |-> TRUE, label |-> children[i], child |-> TRUE,
      before |-> ValuesOf(heap, labels), returned |-> FALSE,
      zone |-> None] :
         i \in 1..Len(children)}
    \cup {[on |-> TRUE, label |-> v, child |-> FALSE,
           before |-> ValuesOf(heap, labels), returned |-> FALSE,
      zone |-> None] :
              v \in IF settings_built /\ edit_mode THEN draggable ELSE {}}
    \cup {[on |-> TRUE, label |-> None, child |-> FALSE,
           before |-> ValuesOf(heap, labels), returned |-> FALSE,
           zone |-> None]}

\* A mutant of dragEnterEvent that does not enter the edit mode.
DragEnterEvent_KeepsMode(source) ==
    /\ visible
    /\ ~drag.on
    /\ source \in DragSources
    /\ drag' = source
    /\ Quiet
    /\ UNCHANGED <<order, last_values, labels, heap, children, holder,
                   edit_mode, visible, active, key_down, INVALID_VALUES,
                   valid, draggable, settings_built, excluded_in>>

\* PieWidget.dragEnterEvent(e)
DragEnterEvent(source) ==
    /\ visible
    /\ ~drag.on
    /\ source \in DragSources
    /\ drag' = source
    /\ EnterEditMode
    /\ Quiet
    /\ UNCHANGED <<order, last_values, labels, heap, children, holder,
                   visible, active, key_down, INVALID_VALUES, valid,
                   excluded_in>>

\* The child widget that dragMoveEvent takes for the source (lines 133-137):
\* the source itself when it is a child, else the first child whose label
\* equals the source's; None when there is none.
SourceChild(h, kids, source, isChild) ==
    IF isChild THEN source
    ELSE IF \E i \in 1..Len(kids) : LabelEq(h[kids[i]], h[source])
    THEN kids[CHOOSE i \in 1..Len(kids) :
                  /\ LabelEq(h[kids[i]], h[source])
                  /\ \A j \in 1..(i - 1) : ~LabelEq(h[kids[j]], h[source])]
    ELSE None

\* A mutant of the deadzone test that never finds the pointer inside.
InDeadzone_Never(zone) == FALSE

\* dragMoveEvent, line 118: distance < self._style.deadzone_radius
InDeadzone(zone) == zone = "deadzone"

\* The dragged label was in the list when the drag began and the drag has
\* taken it out (only the dragged label enters or leaves the list in a drag).
DraggedOut ==
    /\ drag.on
    /\ drag.label # None
    /\ drag.label \notin Referred(labels)
    /\ Len(labels) = Len(drag.before) - 1

\* PieWidget.dragMoveEvent(e) for a pointer in a distance band at an angle.
DragMoveEvent(zone, angle) ==
    /\ visible
    /\ drag.on
    /\ Quiet
    /\ UNCHANGED <<order, last_values, edit_mode, visible, active,
                   key_down, INVALID_VALUES, valid, draggable, settings_built,
                   excluded_in>>
    /\ IF drag.label = None \/ InDeadzone(zone)
       THEN /\ drag' = [drag EXCEPT !.zone = zone]
            /\ UNCHANGED <<labels, heap, children, holder>>
       ELSE IF zone = "outside"
       THEN IF LabelIn(heap, drag.label, labels)
            THEN LET left == ListRemove(heap, drag.label, labels)
                     laid == Restart(heap, left)
                 IN  /\ labels' = left
                     /\ heap' = laid.heap
                     /\ children' = laid.children
                     /\ holder' = laid.holder
                     /\ drag' = [drag EXCEPT !.child = FALSE,
                                              !.returned = FALSE,
                                              !.zone = zone]
            ELSE /\ drag' = [drag EXCEPT !.zone = zone]
                 /\ UNCHANGED <<labels, heap, children, holder>>
       ELSE LET added == ~LabelIn(heap, drag.label, labels)
                list == IF added THEN Append(labels, drag.label) ELSE labels
                laid == IF added THEN Restart(heap, list)
                        ELSE [heap |-> heap, holder |-> holder,
                              children |-> children]
                isChild == drag.child /\ ~added
                source == SourceChild(laid.heap, laid.children, drag.label,
                                      isChild)
                target == OnAngle(laid.holder, angle)
                swapped == target # source /\ source # None
            IN  /\ added => Len(labels) < MaxLabels
                /\ labels' = list
                /\ children' = laid.children
                /\ drag' = [drag EXCEPT !.child = isChild,
                                         !.returned = DraggedOut,
                                         !.zone = zone]
                /\ heap' = IF swapped
                           THEN SwapLocations(laid.heap, target, source)
                           ELSE laid.heap
                /\ holder' = IF swapped
                             THEN HolderSwap(laid.holder, target, source)
                             ELSE laid.holder

\* The drag ends (a drop, or the pointer device is lost).
DragEnd ==
    /\ drag.on
    /\ drag' = NoDrag
    /\ heap' = Collect(heap, Referred(labels) \cup Referred(children))
    /\ Quiet
    /\ UNCHANGED <<order, last_values, labels, children, holder,
                   edit_mode, visible, active, key_down, INVALID_VALUES, valid,
                   draggable, settings_built, excluded_in>>

\* ------------------------------------------------------------------
\* AnimationProgress (label.py)
\* ------------------------------------------------------------------

\* Speeds tried, 0.004 * sleep time * speed_scale: none, the smallest step,
\* the speed of a 16 ms timer, a half, one and more than one.
AnimSpeeds == {0, 1, 64, AnimUnit \div 2, AnimUnit, AnimUnit + AnimUnit \div 2}

\* Values of the `steep` argument tried.
AnimSteeps == {0, AnimUnit \div 2, AnimUnit, 2 * AnimUnit}

\* The product of two numbers held in units of 1/AnimUnit.
AnimTimes(a, b) == RoundDiv(a * b, AnimUnit)

Min2(a, b) == IF a < b THEN a ELSE b

Max2(a, b) == IF a > b THEN a ELSE b

\* AnimationProgress.__init__(speed_scale, steep)
AnimInit(speeds, steeps) ==
    /\ progress_value = 0
    /\ progress_speed \in speeds
    /\ progress_steep \in steeps
    /\ progress_op = "init"

\* A mutant of up() without the min().
Up_Unclipped ==
    LET difference ==
            AnimTimes(AnimUnit + progress_steep - progress_value,
                      progress_speed)
    IN  /\ progress_value' = progress_value + difference
        /\ progress_op' = "up"
        /\ UNCHANGED <<progress_speed, progress_steep>>

\* A mutant of up() whose difference leaves the steep out.
Up_NoSteep ==
    LET difference ==
            AnimTimes(AnimUnit - progress_value, progress_speed)
    IN  /\ progress_value' = Min2(progress_value + difference, AnimUnit)
        /\ progress_op' = "up"
        /\ UNCHANGED <<progress_speed, progress_steep>>

\* AnimationProgress.up()
Up ==
    LET difference ==
            AnimTimes(AnimUnit + progress_steep - progress_value,
                      progress_speed)
    IN  /\ progress_value' = Min2(progress_value + difference, AnimUnit)
        /\ progress_op' = "up"
        /\ UNCHANGED <<progress_speed, progress_steep>>

\* AnimationProgress.down()
Down ==
    LET difference ==
            AnimTimes(progress_value + progress_steep, progress_speed)
    IN  /\ progress_value' = Max2(progress_value - difference, 0)
        /\ progress_op' = "down"
        /\ UNCHANGED <<progress_speed, progress_steep>>

\* AnimationProgress.reset()
Reset ==
    /\ progress_value' = 0
    /\ progress_op' = "reset"
    /\ UNCHANGED <<progress_speed, progress_steep>>

\* ------------------------------------------------------------------
\* RotationMenu (rotation_menu.py) and its manager and actuator
\* ------------------------------------------------------------------

\* Angles and values of the rotation menu are held in half degrees.
HalfTurn == 360

FullTurn == 2 * HalfTurn

\* No value was computed yet in the session: not a value of the scale.
NotComputed == 0 - 1

\* Values of the `divisions` argument tried; 24 is its default.
DivisionCounts == {1, 3, 24}

\* Values of the `offset` argument tried, in half degrees.
Offsets == {0, 180}

KEEP_CHANGE == "KEEP_CHANGE"

REVERT == "REVERT"

\* Configurations of the rotation menu tried.
RotationConfigs ==
    [divisions : DivisionCounts,
     inverse_zones : BOOLEAN,
     is_counterclockwise : BOOLEAN,
     offset : Offsets,
     deadzone_strategy : {KEEP_CHANGE, REVERT}]

\* Angles of the samples, in half degrees: 0, 7, 7.5, 8, 22.5, 60, 180,
\* 352, 352.5 and 359.5 degrees.
RotationAngles == {0, 14, 15, 16, 45, 120, 360, 704, 705, 719}

\* Samples of the pointer: the band of its distance and its angle.
RotationSamples == [band : {"deadzone", "inner", "outer"}, angle : RotationAngles]

\* Controller values a session may start with, in half degrees.
StartValues == {0, 90}

\* The quotient n / d (d > 0) rounded to the nearest integer, a tie going up.
RoundHalfUp(n, d) == (2 * n + d) \div (2 * d)

\* A mutant of the division index that rounds a tie to the even neighbour.
DivisionIndex_HalfEven(angle, divisions) ==
    RoundDiv(angle * divisions, FullTurn) % divisions

\* The division of the discrete zone an angle resolves to:
\* round(angle / (360/divisions)) mod divisions.
DivisionIndex(angle, divisions) ==
    RoundHalfUp(angle * divisions, FullTurn) % divisions

\* The zone of a sample: the deadzone, and of the two bands around it the
\* inner is the discrete one unless inverse_zones.
ZoneOf(band, config) ==
    IF band = "deadzone" THEN "deadzone"
    ELSE IF (band = "inner") # config.inverse_zones THEN "discrete"
    ELSE "continuous"

\* The angle picked in a zone: snapped to its division in the discrete one.
PickedAngle(zone, angle, config) ==
    IF zone = "discrete"
    THEN (DivisionIndex(angle, config.divisions) * FullTurn)
             \div config.divisions
    ELSE angle

\* The value of the underlying scale for a picked angle: offset, direction.
ScaleValue(picked, config) ==
    (config.offset
        + (IF config.is_counterclockwise THEN 0 - picked ELSE picked))
        % FullTurn

\* A mutant of KEEP_CHANGE that goes back to the value the session began with.
KeepChange_Reverts(last, start) == start

\* The KEEP_CHANGE strategy: the value computed last; before any was
\* computed, the value the session began with.
KeepChange(last, start) == IF last = NotComputed THEN start ELSE last

\* The deadzone strategy as a function of the value computed last and the
\* value the session began with.
DeadzoneValue(strategy, last, start) ==
    IF strategy = KEEP_CHANGE THEN KeepChange(last, start) ELSE start

\* RotationMenu.__init__ for a set of configurations and of values the
\* controller may hold.
RotationStart(configs, values) ==
    /\ rotation_config \in configs
    /\ rotation_on = FALSE
    /\ selected_zone = "deadzone"
    /\ computed = NotComputed
    /\ starting_value \in values
    /\ rotation_value = starting_value
    /\ rotation_calls = <<>>

\* RotationMenu.__init__ with the defaults of its arguments.
DefaultRotationConfig ==
    [divisions |-> 24, inverse_zones |-> FALSE,
     is_counterclockwise |-> FALSE, offset |-> 0,
     deadzone_strategy |-> KEEP_CHANGE]

\* RotationMenu.__init__ for the configurations looked at.
RotationInit == RotationStart(RotationConfigs, StartValues)

\* A mutant of on_key_press that refreshes the controller last.
RotationOnKeyPress_RefreshLast ==
    /\ ~rotation_on
    /\ rotation_on' = TRUE
    /\ selected_zone' = "deadzone"
    /\ computed' = NotComputed
    /\ starting_value' = rotation_value
    /\ rotation_calls' = <<Call("on_key_press", None),
                           Call("manager.start", None),
                           Call("actuator.start", None),
                           Call("refresh", None)>>
    /\ UNCHANGED <<rotation_config, rotation_value>>

\* RotationMenu.on_key_press()
RotationOnKeyPress ==
    /\ ~rotation_on
    /\ rotation_on' = TRUE
    /\ selected_zone' = "deadzone"
    /\ computed' = NotComputed
    /\ starting_value' = rotation_value
    /\ rotation_calls' = <<Call("on_key_press", None),
                           Call("refresh", None),
                           Call("manager.start", None),
                           Call("actuator.start", None)>>
    /\ UNCHANGED <<rotation_config, rotation_value>>

\* One tick of the session's timers over a sample: the manager finds the
\* zone and the angle, the actuator pushes the resolved value.
RotationTick(sample) ==
    /\ rotation_on
    /\ LET zone == ZoneOf(sample.band, rotation_config)
           value == IF zone = "deadzone"
                    THEN DeadzoneValue(rotation_config.deadzone_strategy,
                                       computed, starting_value)
                    ELSE ScaleValue(PickedAngle(zone, sample.angle,
                                                rotation_config),
                                    rotation_config)
       IN  /\ selected_zone' = zone
           /\ computed' = IF zone = "deadzone" THEN computed ELSE value
           /\ rotation_value' = value
           /\ rotation_calls' = <<Call("set_value", value)>>
    /\ UNCHANGED <<rotation_config, rotation_on, starting_value>>

\* RotationMenu.on_every_key_release()
RotationOnEveryKeyRelease ==
    /\ rotation_on
    /\ rotation_on' = FALSE
    /\ rotation_calls' = <<Call("on_every_key_release", None),
                           Call("actuator.stop", None),
                           Call("manager.stop", None)>>
    /\ UNCHANGED <<rotation_config, selected_zone, computed, starting_value,
                   rotation_value>>

\* ------------------------------------------------------------------
\* PresetPieConfig (pie_config.py)
\* ------------------------------------------------------------------

\* Names of presets: three that tags hold and one that no tag holds.
TagPresets == {"x", "y", "z"}

Presets == TagPresets \cup {"w"}

\* The elements of a list.
Range(seq) == {seq[k] : k \in 1..Len(seq)}

\* Lists of at most n elements of a set.
ListsUpTo(set, n) == UNION {[1..k -> set] : k \in 0..n}

\* Saved orders tried: lists of preset names and of the "" of the default
\* order, entries repeated or not.
SavedOrders == ListsUpTo(Presets \cup {""}, MaxSaved)

\* Contents of a tag: its presets in the tag's order, none twice.
TagContents ==
    {t \in ListsUpTo(TagPresets, Cardinality(TagPresets)) :
        Cardinality(Range(t)) = Len(t)}

\* Nothing was read since the order or the tag changed.
NotRead == [read |-> FALSE, values |-> <<>>]

\* A mutant of `values` that keeps the saved entries the tag does not hold.
PresetValues_KeepsForeign(saved, tag) ==
    LET missing == SelectSeq(tag, LAMBDA p : p \notin Range(saved))
    IN  saved \o missing

\* PresetPieConfig.values for a saved order and the content of the tag.
PresetValues(saved, tag) ==
    LET preset_order == SelectSeq(saved, LAMBDA p : p \in Range(tag))
        missing == SelectSeq(tag, LAMBDA p : p \notin Range(saved))
    IN  preset_order \o missing

\* PresetPieConfig.__init__: the order is [""], the tag is any.
PresetConfigInit ==
    /\ saved_order = <<"">>
    /\ tag_values \in TagContents
    /\ values_read = NotRead

\* A read of the property `values`.
ReadValues ==
    /\ values_read' = [read |-> TRUE,
                       values |-> PresetValues(saved_order, tag_values)]
    /\ UNCHANGED <<saved_order, tag_values>>

\* order.write(saved)
WriteOrder(saved) ==
    /\ saved # saved_order
    /\ saved_order' = saved
    /\ values_read' = NotRead
    /\ UNCHANGED tag_values

\* The presets of the tag change, or tag_name is set to another tag.
TagChanged(tag) ==
    /\ tag # tag_values
    /\ tag_values' = tag
    /\ values_read' = NotRead
    /\ UNCHANGED saved_order

\* ------------------------------------------------------------------
\* Specifications
\* ------------------------------------------------------------------

\* The preset config while another component is looked at: constructed.
PresetAside ==
    /\ saved_order = <<"">>
    /\ tag_values = <<>>
    /\ values_read = NotRead

\* The rotation menu while another component is looked at: constructed.
RotationAside == RotationStart({DefaultRotationConfig}, {0})

\* The progress, the rotation menu and the preset config while the slider
\* or the pie is looked at: constructed.
AnimAside ==
    /\ AnimInit({0}, {AnimUnit})
    /\ selected = FALSE
    /\ pointer = NoSample
    /\ PresetAside
    /\ RotationAside

\* The slider while the pie is looked at: constructed, never started.
SliderAside ==
    /\ to_cycle = [values |-> CycleOfLen(1), default_value |-> 0]
    /\ sensitivity = DefaultSensitivity
    /\ working = FALSE
    /\ interpreter = NoInterpreter
    /\ spc = "idle"
    /\ sctrl = NotInCycle
    /\ stopRequested = FALSE
    /\ ticksAfterStop = 0
    /\ passedAfterStop = FALSE
    /\ sop = "init"
    /\ scalls = <<>>
    /\ lastSample = 0
    /\ lastIndex = 0
    /\ prevCtrl = NotInCycle
    /\ startMissing = FALSE

\* The pie while the slider is looked at: constructed, never used.
PieAside ==
    /\ PieInit
    /\ order = <<>>
    /\ valid = Values

KeyPress == OnKeyPress /\ UNCHANGED besidePie

KeyRelease == OnEveryKeyRelease /\ UNCHANGED besidePie

PointerTick ==
    /\ \E p \in PointerPositions : ManagerTick(p.zone, p.angle)
    /\ UNCHANGED besidePie

SettingsClick == SettingsButtonClicked /\ UNCHANGED besidePie

Accept == AcceptButtonClicked /\ UNCHANGED besidePie

ConfigEdit ==
    /\ \E values \in ConfigLists : ConfigChanged(values)
    /\ UNCHANGED besidePie

ControllerEdit ==
    /\ \E v \in Flaky : ControllerChanged(v)
    /\ UNCHANGED besidePie

DragEnter ==
    /\ \E source \in DragSources : DragEnterEvent(source)
    /\ UNCHANGED besidePie

DragMove ==
    /\ \E p \in PointerPositions : DragMoveEvent(p.zone, p.angle)
    /\ UNCHANGED besidePie

DragStop == DragEnd /\ UNCHANGED besidePie

Init == PieInit /\ SliderAside /\ AnimAside

Next ==
    \/ KeyPress
    \/ KeyRelease
    \/ PointerTick
    \/ SettingsClick
    \/ Accept
    \/ ConfigEdit
    \/ ControllerEdit
    \/ DragEnter
    \/ DragMove
    \/ DragStop

Spec == Init /\ [][Next]_vars

SliderSpecInit == SliderInit /\ PieAside /\ AnimAside

SliderNext ==
    \/ SliderStart /\ UNCHANGED besideSlider
    \/ SliderSetWorking /\ UNCHANGED besideSlider
    \/ SliderLoopCheck /\ UNCHANGED besideSlider
    \/ SliderTick /\ UNCHANGED besideSlider
    \/ SliderSleep /\ UNCHANGED besideSlider
    \/ SliderStop /\ UNCHANGED besideSlider

SliderSpec == SliderSpecInit /\ [][SliderNext]_vars

\* The pie of ReorderOrder, shown and edited by drags only.
ReorderInit ==
    /\ PieStart({ReorderOrder}, {Referred(ReorderOrder)}, TRUE)
    /\ SliderAside
    /\ AnimAside

ReorderNext ==
    \/ KeyPress
    \/ SettingsClick
    \/ DragEnter
    \/ DragMove
    \/ DragStop

ReorderSpec == ReorderInit /\ [][ReorderNext]_vars

\* Configured lists of the pies picked from: one, two and three values.
SelectOrders == {<<"A">>, <<"A", "B">>, <<"B", "A">>, ReorderOrder}

\* The pie picked from: key presses and releases around the samples of the
\* manager's timer.
SelectInit ==
    /\ PieStart(SelectOrders, {Referred(ReorderOrder)}, TRUE)
    /\ SliderAside
    /\ AnimInit({0}, {AnimUnit})
    /\ selected = FALSE
    /\ pointer = NoSample
    /\ PresetAside
    /\ RotationAside

SelectPress ==
    /\ OnKeyPress
    /\ pointer' = IF visible THEN pointer ELSE NoSample
    /\ UNCHANGED <<sliderVars, animVars, rotationVars, allow_remove,
                   presetVars>>

SelectTick ==
    /\ \E p \in SelectPositions :
           /\ ManagerTick(p.zone, p.angle)
           /\ pointer' = p
    /\ UNCHANGED <<sliderVars, animVars, rotationVars, allow_remove,
                   presetVars>>

SelectNext ==
    \/ SelectPress
    \/ SelectTick
    \/ KeyRelease

SelectSpec == SelectInit /\ [][SelectNext]_vars

\* The rotation menu of any configuration tried: sessions of key press,
\* ticks and key release.
RotationSpecInit ==
    /\ RotationInit
    /\ PieAside
    /\ SliderAside
    /\ AnimInit({0}, {AnimUnit})
    /\ selected = FALSE
    /\ pointer = NoSample
    /\ PresetAside

RotationKeyPress == RotationOnKeyPress /\ UNCHANGED besideRotation

RotationTimerTick ==
    /\ \E sample \in RotationSamples : RotationTick(sample)
    /\ UNCHANGED besideRotation

RotationKeyRelease == RotationOnEveryKeyRelease /\ UNCHANGED besideRotation

RotationNext ==
    \/ RotationKeyPress
    \/ RotationTimerTick
    \/ RotationKeyRelease

RotationSpec == RotationSpecInit /\ [][RotationNext]_vars

\* A pie of presets (PresetPieConfig), shown and edited by drags only.
PresetInit ==
    /\ PieStart({ReorderOrder}, {Referred(ReorderOrder)}, FALSE)
    /\ SliderAside
    /\ AnimAside

PresetSpec == PresetInit /\ [][ReorderNext]_vars

\* The pie menu with a controller whose answers do not change: sessions,
\* changes of the stored configuration and drags in the edit mode.
StableControllerNext ==
    \/ KeyPress
    \/ KeyRelease
    \/ PointerTick
    \/ SettingsClick
    \/ Accept
    \/ ConfigEdit
    \/ DragEnter
    \/ DragMove
    \/ DragStop

StableControllerSpec == Init /\ [][StableControllerNext]_vars

\* A pie menu and a rotation menu of one plugin: the sessions of both, each
\* handler running to completion on the GUI thread.
SessionInit ==
    /\ PieStart(ConfigLists, {Values}, TRUE)
    /\ RotationStart({DefaultRotationConfig}, {0})
    /\ SliderAside
    /\ AnimInit({0}, {AnimUnit})
    /\ selected = FALSE
    /\ pointer = NoSample
    /\ PresetAside

SessionNext ==
    \/ KeyPress
    \/ PointerTick
    \/ KeyRelease
    \/ RotationKeyPress
    \/ RotationTimerTick
    \/ RotationKeyRelease

SessionSpec == SessionInit /\ [][SessionNext]_vars

\* One AnimationProgress of any speed and steep, its methods called in any
\* order.
ProgressInit ==
    /\ AnimInit(AnimSpeeds, AnimSteeps)
    /\ selected = FALSE
    /\ pointer = NoSample
    /\ PresetAside
    /\ RotationAside
    /\ PieAside
    /\ SliderAside

ProgressUp == Up /\ UNCHANGED <<selected, besideAnim>>

ProgressDown == Down /\ UNCHANGED <<selected, besideAnim>>

ProgressReset == Reset /\ UNCHANGED <<selected, besideAnim>>

ProgressNext ==
    \/ ProgressUp
    \/ ProgressDown
    \/ ProgressReset

ProgressSpec == ProgressInit /\ [][ProgressNext]_vars

\* The progress of one label (steep 1, a speed above 0) under the timer of
\* the pie: every tick calls up() when the label is the active one and
\* down() when it is not; the pointer makes the label active or not.
TickInit ==
    /\ AnimInit(AnimSpeeds \ {0}, {AnimUnit})
    /\ selected \in BOOLEAN
    /\ pointer = NoSample
    /\ PresetAside
    /\ RotationAside
    /\ PieAside
    /\ SliderAside

TickActive ==
    /\ selected
    /\ Up
    /\ UNCHANGED <<selected, besideAnim>>

TickIdle ==
    /\ ~selected
    /\ Down
    /\ UNCHANGED <<selected, besideAnim>>

PointerOn ==
    /\ ~selected
    /\ selected' = TRUE
    /\ UNCHANGED <<progress_value, progress_speed, progress_steep,
                   progress_op, besideAnim>>

PointerOff ==
    /\ selected
    /\ selected' = FALSE
    /\ UNCHANGED <<progress_value, progress_speed, progress_steep,
                   progress_op, besideAnim>>

TickNext ==
    \/ TickActive
    \/ TickIdle
    \/ PointerOn
    \/ PointerOff

\* The timer fires for as long as the pie is shown: a tick that would change
\* the progress is not postponed forever.
TickSpec ==
    /\ TickInit
    /\ [][TickNext]_vars
    /\ WF_vars(TickActive)
    /\ WF_vars(TickIdle)

\* A specification of PresetPieConfig.values: the order is written, the tag
\* changes, and the property is read in between.
PresetValuesInit ==
    /\ PresetConfigInit
    /\ PieAside
    /\ SliderAside
    /\ AnimInit({0}, {AnimUnit})
    /\ selected = FALSE
    /\ pointer = NoSample
    /\ RotationAside

PresetRead == ReadValues /\ UNCHANGED besidePreset

PresetWrite ==
    /\ \E saved \in SavedOrders : WriteOrder(saved)
    /\ UNCHANGED besidePreset

PresetTag ==
    /\ \E tag \in TagContents : TagChanged(tag)
    /\ UNCHANGED besidePreset

PresetValuesNext == PresetRead \/ PresetWrite \/ PresetTag

PresetValuesSpec == PresetValuesInit /\ [][PresetValuesNext]_vars

\* ------------------------------------------------------------------
\* Slider: properties
\* ------------------------------------------------------------------

\* C3: once stop() has been called while start() is running, the poll loop
\* makes at most one further tick (one more _handle, hence one more
\* controller.set_value) before it exits.
C3_StopExitsWithinOneTick == stopRequested => ticksAfterStop <= 1

\* C4: under every interleaving of start() and stop(), the poll loop is not
\* left running after the session has ended: once stop() has been called,
\* the loop condition is never again found true.
C4_LoopNotRunningAfterStop == stopRequested => ~passedAfterStop

\* C5: every tick makes exactly one controller.set_value call, whose argument
\* is the cycle element at the index resolved from that tick's own sample,
\* whether or not the value changed.
C5_EveryTickSetsOnce ==
    sop = "handle" =>
        /\ scalls = <<CycleAt(to_cycle, MouseToValue(interpreter, lastSample))>>
        /\ sctrl = scalls[1]

\* C5 witness: a tick that pushed a value equal to the one already set.
C5_Witness == sop = "handle" /\ Len(scalls) = 1 /\ scalls[1] = prevCtrl

\* The integers a displacement of the sampled pointer can round to.
RoundRange ==
    LET far == CHOOSE m \in MouseSamples : \A k \in MouseSamples : k <= m
    IN  (0 - far)..far

\* u is the integer nearest to n / d, the even one of the two on a tie.
IsNearestEven(u, n, d) ==
    LET twice == 2 * (n - u * d)
    IN  \/ (twice < d /\ 0 - twice < d)
        \/ ((twice = d \/ 0 - twice = d) /\ u % 2 = 0)

\* C6: the index a tick resolves is clamp(start + round((current - origin) /
\* sensitivity), min, max); it lies in [min, max]; a displacement of exactly
\* `sensitivity` moves the unclamped index by exactly 1; and min = 0, max = 9,
\* sensitivity = 50, start = 5 with a displacement of +125 gives 7.
C6_IndexIsClampedRounding ==
    sop = "handle" =>
        LET it == interpreter
            d == lastSample - it.mouse_origin
        IN  /\ it.min <= it.start_value /\ it.start_value <= it.max
            /\ it.sensitivity > 0
            /\ it.min <= lastIndex /\ lastIndex <= it.max
            /\ \E u \in RoundRange :
                   /\ IsNearestEven(u, d, it.sensitivity)
                   /\ lastIndex = Clip(it.start_value + u, it.min, it.max)
            /\ (d = it.sensitivity /\ it.start_value + 1 <= it.max)
                   => lastIndex = it.start_value + 1
            /\ (it.min = 0 /\ it.max = 9 /\ it.sensitivity = 50
                    /\ it.start_value = 5 /\ d = 125)
                   => lastIndex = 7

\* C6 witness: the tick of the example (displacement +125 from start 5).
C6_Witness ==
    /\ sop = "handle"
    /\ interpreter.min = 0 /\ interpreter.max = 9
    /\ interpreter.sensitivity = 50 /\ interpreter.start_value = 5
    /\ lastSample - interpreter.mouse_origin = 125
    /\ lastIndex = 7

\* C7: when the controller's value is not in the cycle at session start, the
\* interpreter's start value is the cycle's designated default and the poll
\* loop runs from it (a tick sampled at the origin sets the default element).
C7_MissingValueStartsAtDefault ==
    (startMissing /\ interpreter.set) =>
        /\ interpreter.start_value = to_cycle.default_value
        /\ (sop = "handle" /\ lastSample = interpreter.mouse_origin)
               => scalls = <<CycleAt(to_cycle, to_cycle.default_value)>>

\* C7 witness: a tick of a session started from a value outside the cycle.
C7_Witness ==
    /\ startMissing
    /\ sop = "handle"
    /\ lastSample = interpreter.mouse_origin
    /\ to_cycle.default_value # CycleMin(to_cycle)

\* ------------------------------------------------------------------
\* Pie: properties
\* ------------------------------------------------------------------

\* A step that is a key release: the only handler that takes the key up.
IsKeyRelease == key_down /\ ~key_down'

\* C1: a key release outside the edit mode calls controller.set_value exactly
\* once, with the active label's value, when a label is active; when none is
\* active it makes no set_value call (pie_manager.stop is its only call).
C1_ReleaseWritesActiveOnce ==
    [][(IsKeyRelease /\ ~edit_mode) =>
          /\ active # None =>
                calls' = <<Call("stop", None), Call("set_value", active)>>
          /\ active = None => calls' = <<Call("stop", None)>>]_vars

\* A release outside the edit mode has just written the active label's value.
C1_Witness ==
    /\ ~key_down
    /\ ~visible
    /\ active # None
    /\ calls = <<Call("stop", None), Call("set_value", active)>>

\* C2: a key release in the edit mode neither stops nor hides the pie, does
\* not leave the edit mode, and writes nothing through the controller or to
\* the configuration.
C2_ReleaseInEditModeIsInert ==
    [][(IsKeyRelease /\ edit_mode) =>
          /\ calls' = <<>>
          /\ visible' = visible
          /\ edit_mode'
          /\ order' = order]_vars

\* The key went up while the pie stayed shown in the edit mode.
C2_Witness == visible /\ edit_mode /\ ~key_down

\* C8: while the configured list is the one a value was excluded in, the
\* labels hold no excluded value.
C8_ExcludedValueStaysOut ==
    excluded_in = <<order>> =>
        \A i \in 1..Len(labels) : heap[labels[i]].value \notin INVALID_VALUES

\* C9: no handler asks the controller for the label of a value that is
\* already in INVALID_VALUES.
C9_ExcludedValueNotQueried == ~requeried

\* C10: no two labels of the pie have the same value.
C10_NoTwoLabelsShareValue ==
    \A i, j \in 1..Len(labels) :
        i # j => heap[labels[i]].value # heap[labels[j]].value

\* The places of the holder a label is filed at.
HolderPlaces(id) == {k \in 1..Len(holder) : holder[k][2] = id}

\* C11: while the pie is shown, whatever drag events came and wherever a drag
\* was interrupted, every label of the list has exactly one child widget and
\* exactly one angle (the one its holder place has), no two labels have the
\* same angle, and there are as many assigned angles as labels.
C11_LayoutConsistent ==
    visible =>
        /\ Len(holder) = Len(labels)
        /\ Len(children) = Len(labels)
        /\ \A i \in 1..Len(labels) :
               /\ Cardinality({k \in 1..Len(children) :
                                   children[k] = labels[i]}) = 1
               /\ Cardinality(HolderPlaces(labels[i])) = 1
               /\ \A k \in HolderPlaces(labels[i]) :
                      /\ heap[labels[i]].angle = holder[k][1]
                      /\ heap[labels[i]].center = PointFromAngle(holder[k][1])
        /\ \A j, k \in 1..Len(holder) :
               j # k => holder[j][1] # holder[k][1]

\* A drag was interrupted after it had inserted a label and swapped it with
\* another: the second label of the list sits at the first angle.
C11_Witness ==
    /\ visible
    /\ edit_mode
    /\ ~drag.on
    /\ Len(labels) = 2
    /\ labels[2] \in PoolIds
    /\ holder[1][2] = labels[2]

\* ------------------------------------------------------------------
\* Drag reordering: properties
\* ------------------------------------------------------------------

\* The child a drag move takes for its source when the dragged label is in
\* the list already.
DraggedChild == SourceChild(heap, children, drag.label, drag.child)

\* The values of the labels of a holder, in the order of its angles.
HolderValues(h, hold) == [k \in 1..Len(hold) |-> h[hold[k][2]].value]

\* The angles of a holder, in its order.
HolderAngles(hold) == [k \in 1..Len(hold) |-> hold[k][1]]

\* C12: a drag move in the ring onto the slot of another label exchanges the
\* (angle, center) pairs of the dragged label and of the slot's occupant and
\* nothing else: all values, the list, every other label and the occupied
\* angles stay; from [A, B, C] at [0, 120, 240], A dragged to C's slot gives
\* [C, B, A] on the same angles; a move onto the own slot changes nothing.
C12_SwapExchangesOnlyTwo ==
    [][\A p \in PointerPositions :
          (/\ DragMoveEvent(p.zone, p.angle)
           /\ p.zone = "ring"
           /\ drag.label # None
           /\ LabelIn(heap, drag.label, labels)) =>
              LET source == DraggedChild
                  target == OnAngle(holder, p.angle)
              IN  /\ labels' = labels
                  /\ children' = children
                  /\ \A id \in Ids : heap'[id].value = heap[id].value
                  /\ HolderAngles(holder') = HolderAngles(holder)
                  /\ \A id \in Ids \ {source, target} : heap'[id] = heap[id]
                  /\ \A k \in 1..Len(holder) :
                         holder[k][2] \notin {source, target}
                             => holder'[k] = holder[k]
                  /\ IF target = source
                     THEN heap' = heap /\ holder' = holder
                     ELSE /\ heap'[source].angle = heap[target].angle
                          /\ heap'[source].center = heap[target].center
                          /\ heap'[target].angle = heap[source].angle
                          /\ heap'[target].center = heap[source].center
                          /\ \A k \in HolderPlaces(target) :
                                 holder'[k] = <<holder[k][1], source>>
                          /\ \A k \in HolderPlaces(source) :
                                 holder'[k] = <<holder[k][1], target>>
                  /\ (/\ HolderValues(heap, holder) = ReorderOrder
                      /\ HolderAngles(holder) = <<0, 120, 240>>
                      /\ heap[source].value = "A"
                      /\ heap[target].value = "C")
                         => /\ HolderValues(heap', holder') = <<"C", "B", "A">>
                            /\ HolderAngles(holder') = <<0, 120, 240>>]_vars

\* The example has happened: A, dragged, sits in C's slot and C in A's.
C12_Witness ==
    /\ drag.on
    /\ drag.label # None
    /\ heap[drag.label].value = "A"
    /\ HolderValues(heap, holder) = <<"C", "B", "A">>
    /\ HolderAngles(holder) = <<0, 120, 240>>
    /\ ValuesOf(heap, labels) = ReorderOrder
    /\ \A k \in 1..Len(holder) :
           /\ heap[holder[k][2]].angle = holder[k][1]
           /\ heap[holder[k][2]].center = PointFromAngle(holder[k][1])

\* The layout _restart gives a list of labels: the k-th label at the k-th of
\* the evenly spaced angles, with that angle's point for its center.
IsFreshLayout(h, list, kids, hold) ==
    /\ kids = list
    /\ hold = [k \in 1..Len(list) |-> <<CircleAngle(k, Len(list)), list[k]>>]
    /\ \A k \in 1..Len(list) :
           /\ h[list[k]].angle = CircleAngle(k, Len(list))
           /\ h[list[k]].center = PointFromAngle(CircleAngle(k, Len(list)))

\* C13: a drag move beyond the pie radius removes the dragged label from the
\* list when it is a member (the list loses that one element, the others stay
\* in order and are laid out anew, one angle each, none swapped) and leaves
\* the list and the layout as they are when it is not.
C13_OutsideRemovesMember ==
    [][\A p \in PointerPositions :
          (/\ DragMoveEvent(p.zone, p.angle)
           /\ p.zone = "outside"
           /\ drag.label # None) =>
              IF LabelIn(heap, drag.label, labels)
              THEN /\ \E i \in 1..Len(labels) :
                          /\ \/ labels[i] = drag.label
                             \/ LabelEq(heap[labels[i]], heap[drag.label])
                          /\ labels' = [k \in 1..(Len(labels) - 1) |->
                                           IF k < i THEN labels[k]
                                           ELSE labels[k + 1]]
                   /\ drag.label \notin Referred(labels')
                   /\ \A id \in Ids : heap'[id].value = heap[id].value
                   /\ IsFreshLayout(heap', labels', children', holder')
              ELSE /\ labels' = labels
                   /\ heap' = heap
                   /\ children' = children
                   /\ holder' = holder]_vars

\* A child was dragged beyond the pie radius: it is out of the list, and the
\* two labels left are laid out on opposite angles.
C13_Witness ==
    /\ visible
    /\ drag.on
    /\ drag.label \in PieIds
    /\ heap[drag.label].value # None
    /\ drag.label \notin Referred(labels)
    /\ Len(labels) = 2
    /\ HolderAngles(holder) = <<0, 180>>

\* C14: a drag move in the ring with a dragged label that is not in the list
\* appends it: afterwards it is in the list exactly once, has one child and
\* one angle of the holder, which is the angle it holds; and when no label of
\* the list had its value, exactly one has it afterwards.
C14_RingInsertsNonMember ==
    [][\A p \in PointerPositions :
          (/\ DragMoveEvent(p.zone, p.angle)
           /\ p.zone = "ring"
           /\ drag.label # None
           /\ ~LabelIn(heap, drag.label, labels)) =>
              /\ Len(labels') = Len(labels) + 1
              /\ SubSeq(labels', 1, Len(labels)) = labels
              /\ Cardinality({k \in 1..Len(labels') :
                                  labels'[k] = drag.label}) = 1
              /\ children' = labels'
              /\ Len(holder') = Len(labels')
              /\ Cardinality({k \in 1..Len(holder') :
                                  holder'[k][2] = drag.label}) = 1
              /\ \A k \in 1..Len(holder') :
                     holder'[k][2] = drag.label =>
                         /\ heap'[drag.label].angle = holder'[k][1]
                         /\ heap'[drag.label].center
                                = PointFromAngle(holder'[k][1])
              /\ heap'[drag.label].value = heap[drag.label].value
              /\ (\A i \in 1..Len(labels) :
                      heap[labels[i]].value # heap[drag.label].value)
                     => Cardinality({k \in 1..Len(labels') :
                                         heap'[labels'[k]].value
                                             = heap[drag.label].value}) = 1]_vars

\* A label of the pool was dragged into the ring of a pie that had no label
\* of its value: it is the last label of the list, the only one of its value.
C14_Witness ==
    /\ visible
    /\ drag.on
    /\ drag.label \in PoolIds
    /\ Len(labels) > 1
    /\ labels[Len(labels)] = drag.label
    /\ \A i \in 1..(Len(labels) - 1) :
           heap[labels[i]].value # heap[drag.label].value

\* How often a value occurs in a list of values.
Count(seq, v) == Cardinality({k \in 1..Len(seq) : seq[k] = v})

\* Two lists hold the same values, each as often.
SameValues(s, t) ==
    /\ Len(s) = Len(t)
    /\ \A k \in 1..Len(s) : Count(s, s[k]) = Count(t, s[k])

\* C15: when a drag has taken a member beyond the pie radius and then moved
\* back into the ring, the labels have the values they had when the drag
\* began, each as often.
C15_OutAndBackKeepsValues ==
    drag.returned => SameValues(ValuesOf(heap, labels), drag.before)

\* C16: a drag move inside the deadzone, or one whose source is no label
\* widget, changes nothing of the pie: the list of labels, their children,
\* the holder, every label's value, angle and center, and the stored order.
C16_DeadzoneMoveChangesNothing ==
    [][\A p \in PointerPositions :
          (/\ DragMoveEvent(p.zone, p.angle)
           /\ (p.zone = "deadzone" \/ drag.label = None)) =>
              /\ labels' = labels
              /\ children' = children
              /\ holder' = holder
              /\ heap' = heap
              /\ order' = order]_vars

\* The last move of a drag of a label of a pie of three was in the deadzone.
C16_Witness ==
    /\ visible
    /\ drag.on
    /\ drag.label \in PieIds
    /\ drag.zone = "deadzone"
    /\ Len(labels) = Len(ReorderOrder)

\* ------------------------------------------------------------------
\* Edit mode: properties
\* ------------------------------------------------------------------

\* C17: a drag that starts puts the pie into the edit mode; no drag enter,
\* move or end leaves it; the edit mode is left only in a step that hides the
\* pie; and a hidden pie is never in the edit mode.
C17_EditModeFromDragUntilHide ==
    /\ [](~visible => ~edit_mode)
    /\ [][/\ DragEnter => edit_mode'
          /\ (edit_mode /\ (DragEnter \/ DragMove \/ DragStop)) => edit_mode'
          /\ (edit_mode /\ ~edit_mode') => (visible /\ ~visible')]_vars

\* A drag of a child began outside the edit mode, reordered the labels and
\* ended; the pie is still shown in the edit mode.
C17_Witness ==
    /\ visible
    /\ edit_mode
    /\ ~drag.on
    /\ Len(holder) = 2
    /\ holder[1][2] # labels[1]
    /\ \A i \in 1..Len(labels) : labels[i] \in PieIds

\* The orders written to the configuration by the last handler.
OrderWrites(made) ==
    SelectSeq(made, LAMBDA c : c.fn = "write_order")

\* The values of the labels in the order of the angles they are shown at.
ShownOrder ==
    ValuesOf(heap, [k \in 1..Len(holder) |-> holder[k][2]])

\* C18: the step that leaves the edit mode writes the order the drags
\* produced to the configuration exactly once; a drag enter, move or end
\* writes nothing; hiding the pie outside the edit mode writes nothing.
C18_OrderSavedOnceOnLeavingEditMode ==
    [][/\ (edit_mode /\ ~edit_mode') =>
              /\ OrderWrites(calls') = <<Call("write_order", ShownOrder)>>
              /\ order' = ShownOrder
       /\ (DragEnter \/ DragMove \/ DragStop) =>
              /\ OrderWrites(calls') = <<>>
              /\ order' = order
       /\ (~edit_mode /\ visible /\ ~visible') =>
              /\ OrderWrites(calls') = <<>>
              /\ order' = order]_vars

\* The pie was hidden in the edit mode after drags had changed the order of
\* two labels: the order written differs from the one the pie was shown with.
C18_Witness ==
    /\ ~visible
    /\ OrderWrites(calls) = <<Call("write_order", order)>>
    /\ Len(order) = 2
    /\ Len(last_values) = 2
    /\ order # last_values

\* ------------------------------------------------------------------
\* AnimationProgress: properties
\* ------------------------------------------------------------------

\* C19: after any calls of up(), down() and reset() the value is between 0
\* and 1; up() never lowers the value, down() never raises it, reset() sets
\* it to 0.
C19_ValueStaysInUnitRange ==
    /\ [](progress_value >= 0 /\ progress_value <= AnimUnit)
    /\ [][/\ Up => progress_value' >= progress_value
          /\ Down => progress_value' <= progress_value
          /\ Reset => progress_value' = 0]_vars

\* An up() whose sum passed 1 was cut to 1 although the steep is above 1.
C19_Witness ==
    /\ progress_op = "up"
    /\ progress_value = AnimUnit
    /\ progress_speed > AnimUnit
    /\ progress_steep > AnimUnit

\* C20: with steep 1 and a speed above 0, the value of a label that stays
\* active reaches 1 after finitely many ticks and stays 1; the value of a
\* label that stays not active reaches 0 and stays 0.
C20_SaturatesAtOneDecaysToZero ==
    /\ (<>[]selected) => <>[](progress_value = AnimUnit)
    /\ (<>[](~selected)) => <>[](progress_value = 0)

\* A label at the timer's speed was active until up() brought its value to 1.
C20_Witness ==
    /\ selected
    /\ progress_op = "up"
    /\ progress_value = AnimUnit
    /\ progress_speed = 64

\* ------------------------------------------------------------------
\* Picking a label: properties
\* ------------------------------------------------------------------

\* The last handler called controller.set_value.
SetsValue(made) ==
    \E i \in 1..Len(made) : made[i].fn = "set_value"

\* C21: while the sample read last lies inside the deadzone no label of the
\* shown pie is active, whatever the labels are, and a key release then
\* calls no set_value: the controlled value stays as it is.
C21_DeadzoneSelectsNothing ==
    /\ []((visible /\ pointer.zone = "deadzone") => active = None)
    /\ [][(IsKeyRelease /\ visible /\ pointer.zone = "deadzone")
              => ~SetsValue(calls')]_vars

\* The key was released with the pointer inside the deadzone of a pie of
\* three labels: the pie closed with the manager's stop as the only call.
C21_Witness ==
    /\ ~visible
    /\ ~key_down
    /\ pointer.zone = "deadzone"
    /\ Len(labels) = Len(ReorderOrder)
    /\ calls = <<Call("stop", None)>>

\* The arc from angle a to angle b, taken the shorter way round.
Arc(a, b) ==
    LET cw == (b - a) % 360
        ccw == (a - b) % 360
    IN  IF cw < ccw THEN cw ELSE ccw

\* The places of the holder that lie nearest to an angle.
NearestPlaces(hold, angle) ==
    {k \in 1..Len(hold) :
        \A j \in 1..Len(hold) : Arc(hold[k][1], angle) <= Arc(hold[j][1], angle)}

\* C22: while the sample read last lies at or beyond the deadzone radius of
\* a shown pie with labels, the active value is that of exactly one label:
\* the one of the lowest place among those whose angle is nearest, by the
\* shorter arc, to the sample's angle. The active value is thus a function
\* of the sample and the labels.
C22_NearestLabelIsActive ==
    (visible /\ pointer.zone \in {"ring", "outside"} /\ holder # <<>>) =>
        LET near == NearestPlaces(holder, pointer.angle)
            k == CHOOSE k \in near : \A j \in near : k <= j
        IN  /\ near # {}
            /\ active = heap[holder[k][2]].value
            /\ Cardinality({i \in 1..Len(labels) :
                               heap[labels[i]].value = active}) = 1

\* A sample halfway between the first two of three labels made the first
\* one the active label.
C22_Witness ==
    /\ visible
    /\ pointer.zone = "ring"
    /\ Len(holder) = Len(ReorderOrder)
    /\ Cardinality(NearestPlaces(holder, pointer.angle)) = 2
    /\ 1 \in NearestPlaces(holder, pointer.angle)
    /\ active = heap[holder[1][2]].value

\* ------------------------------------------------------------------
\* Rotation menu: properties
\* ------------------------------------------------------------------

\* q is angle / (360/divisions) rounded to the nearest integer, a tie going
\* up: the angle is less than half a division below q's and at most half a
\* division above it.
IsRounded(q, angle, divisions) ==
    /\ 2 * (q * FullTurn - angle * divisions) <= FullTurn
    /\ 2 * (angle * divisions - q * FullTurn) < FullTurn

C24_KeepChangeKeepsLastValue ==
    /\ []((/\ rotation_on
           /\ selected_zone = "deadzone"
           /\ rotation_config.deadzone_strategy = KEEP_CHANGE
           /\ computed # NotComputed) => rotation_value = computed)
    /\ [][\A sample \in RotationSamples :
             (/\ RotationTick(sample)
              /\ ZoneOf(sample.band, rotation_config) = "deadzone"
              /\ rotation_config.deadzone_strategy = KEEP_CHANGE
              /\ computed # NotComputed) =>
                 /\ computed' = computed
                 /\ rotation_calls' = <<Call("set_value", computed)>>]_vars

\* Under KEEP_CHANGE a tick in the deadzone applied the value computed
\* before, which is not the value the session began with.
C24_Witness ==
    /\ rotation_on
    /\ selected_zone = "deadzone"
    /\ rotation_config.deadzone_strategy = KEEP_CHANGE
    /\ computed # NotComputed
    /\ computed # starting_value
    /\ rotation_value = computed
    /\ rotation_calls = <<Call("set_value", computed)>>

\* ------------------------------------------------------------------
\* Pie settings: properties
\* ------------------------------------------------------------------

\* The pool widgets whose value no label of the list has.
UnusedInPool(h, list) ==
    {v \in PoolIds : \A i \in 1..Len(list) : h[list[i]].value # h[v].value}

\* The step ran the settings' refresh: they were constructed, or ORDER was
\* written with them registered.
Refreshes ==
    \/ ~settings_built /\ settings_built'
    \/ settings_built /\ order' # order

\* C25: after the settings' refresh, the pool widgets left enabled and
\* draggable are exactly those whose value is not used in the pie.
C25_RefreshDisablesUsedValues ==
    [][Refreshes => draggable' = UnusedInPool(heap', labels')]_vars

\* ------------------------------------------------------------------
\* Sessions: properties
\* ------------------------------------------------------------------

\* Of the calls made, each of f and g occurs once and f comes before g.
CalledBefore(made, f, g) ==
    \E i, j \in 1..Len(made) :
        /\ i < j
        /\ made[i].fn = f
        /\ made[j].fn = g
        /\ \A k \in 1..Len(made) :
               /\ made[k].fn = f => k = i
               /\ made[k].fn = g => k = j

\* C26: a key press that starts a session calls controller.refresh() before
\* it starts the manager (the rotation menu: and the actuator) and, in the
\* pie menu, before it reads the configured values; the rotation menu's key
\* release stops the actuator before the manager.
C26_RefreshBeforeStart ==
    [][/\ (~visible /\ visible') =>
              /\ CalledBefore(calls', "refresh", "values")
              /\ CalledBefore(calls', "refresh", "start")
       /\ (~rotation_on /\ rotation_on') =>
              /\ CalledBefore(rotation_calls', "refresh", "manager.start")
              /\ CalledBefore(rotation_calls', "refresh", "actuator.start")
       /\ (rotation_on /\ ~rotation_on') =>
              CalledBefore(rotation_calls', "actuator.stop", "manager.stop")]_vars

\* A session of the pie has just started, with labels rebuilt from the
\* values read, after a session of the rotation menu has started and ended.
C26_Witness ==
    /\ visible
    /\ Len(labels) = 2
    /\ CalledBefore(calls, "refresh", "start")
    /\ ~rotation_on
    /\ computed # NotComputed
    /\ CalledBefore(rotation_calls, "actuator.stop", "manager.stop")

\* The configured values the controller has a display label for, in the
\* configured order.
Displayable(values, ok) == SelectSeq(values, LAMBDA v : v \in ok)

IsKeyPress == ~key_down /\ key_down'

\* C28: a key press while the pie is shown asks whether it is visible and
\* does nothing else: no refresh of the controller, no rebuilt labels, no
\* start of the manager, no key-press handler of the instructions; the
\* pie's state stays as it is.
C28_PressWhileShownIsInert ==
    [][(IsKeyPress /\ visible) =>
          /\ calls' = <<Call("isVisible", TRUE)>>
          /\ UNCHANGED <<order, last_values, labels, heap, children, holder,
                         edit_mode, visible, active, INVALID_VALUES, drag,
                         draggable>>]_vars

\* The key was pressed again while the pie was kept open in the edit mode
\* with a label active.
C28_Witness ==
    /\ visible
    /\ edit_mode
    /\ key_down
    /\ active # None
    /\ calls = <<Call("isVisible", TRUE)>>

\* ------------------------------------------------------------------
\* Preset pies: properties
\* ------------------------------------------------------------------

\* C29: while the config's allow_remove is false, no drag event takes a
\* value out of the labels.
C29_NoRemovalWhenNotAllowed ==
    [][(~allow_remove /\ (DragEnter \/ DragMove \/ DragStop)) =>
          \A i \in 1..Len(labels) :
              Count(ValuesOf(heap', labels'), heap[labels[i]].value) >= 1]_vars

\* ------------------------------------------------------------------
\* Preset config: properties
\* ------------------------------------------------------------------

\* How often a name occurs in a list.
Occurrences(seq, p) == Cardinality({k \in 1..Len(seq) : seq[k] = p})

\* The list has no entry twice.
NoRepeat(seq) == \A p \in Range(seq) : Occurrences(seq, p) = 1

\* sub is the list of the entries of seq that lie in set, in seq's order,
\* when a rising map of the places of sub into those of seq exists that
\* hits exactly the places of seq with an entry in set.
IsSublistOn(sub, seq, set) ==
    LET kept == {k \in 1..Len(seq) : seq[k] \in set}
    IN  /\ Len(sub) = Cardinality(kept)
        /\ \A j \in 1..Len(sub) :
              \E k \in kept :
                  /\ sub[j] = seq[k]
                  /\ Cardinality({m \in kept : m < k}) = j - 1

\* C30: whenever `values` was read, for the saved order and the tag it was
\* read with, the result is the saved entries that the tag holds, in saved
\* order, followed by the presets of the tag that the saved order lacks, in
\* the tag's order; so every preset of the tag is in the result, nothing
\* outside the tag is, and when the saved order repeats no entry the result
\* is a permutation of the tag's presets.
C30_ValuesAreSavedThenMissing ==
    values_read.read =>
        LET result == values_read.values
            inTag == Range(tag_values)
            kept == Cardinality({k \in 1..Len(saved_order) :
                                    saved_order[k] \in inTag})
            head == SubSeq(result, 1, kept)
            tail == SubSeq(result, kept + 1, Len(result))
        IN  /\ Len(result) >= kept
            /\ IsSublistOn(head, saved_order, inTag)
            /\ IsSublistOn(tail, tag_values,
                           inTag \ Range(saved_order))
            /\ inTag \subseteq Range(result)
            /\ Range(result) \subseteq inTag
            /\ NoRepeat(saved_order) =>
                  /\ Len(result) = Len(tag_values)
                  /\ \A p \in inTag : Occurrences(result, p) = 1

\* The property was read with a saved order that holds a name outside the
\* tag, the "" of the default order and a preset of the tag after them, none
\* twice, and with a tag that holds presets the order lacks.
C30_Witness ==
    /\ values_read.read
    /\ NoRepeat(saved_order)
    /\ Len(saved_order) = MaxSaved
    /\ "" \in Range(saved_order)
    /\ "w" \in Range(saved_order)
    /\ saved_order[MaxSaved] \in Range(tag_values)
    /\ Cardinality(Range(tag_values) \ Range(saved_order)) >= 2
    /\ values_read.values[1] = saved_order[MaxSaved]

====
